---- MODULE Spec2Model ----
(***************************************************************************)
(* The example script of pymochow (example/example.py): class TestMochow   *)
(* and its main sequence, run against a Mochow server.  The script is one  *)
(* thread issuing blocking SDK requests; the server answers each request   *)
(* and changes tables and indexes asynchronously in between.               *)
(*                                                                         *)
(* The server is not part of the repository.  What the model takes of it:  *)
(*  - each database holds the one table the script creates in it           *)
(*    (book/book_segments, test_binary_vec/test_binary_vec_tab,            *)
(*    test_sparse_vec/test_sparse_vec_tab); book_segments holds vector_idx;*)
(*  - create_table, drop_table, drop_index and rebuild_index are accepted   *)
(*    at once and take effect in later steps of the server, at any time:   *)
(*    time.sleep() of the script bounds none of them;                      *)
(*  - a request that names something absent raises; drop_database of a     *)
(*    database whose table is not gone yet either succeeds and takes the   *)
(*    table along, or raises;                                              *)
(*  - where the script catches ServerError the server may also raise a     *)
(*    transient ServerError of another code, MaxFaults times at most.      *)
(***************************************************************************)
EXTENDS Integers, Sequences, FiniteSets, TLC

\* ------------------------------------------------------------------ bounds
\* the server raises at most this many transient ServerErrors in one run
MaxFaults == 1
\* the server returns at most this many truncated pages to select()
MaxPages == 2
\* opaque pagination markers the server hands out are 1..MaxMarker
MaxMarker == 2
\* the server returns at most this many non-empty batches to one iterator
MaxBatches == 2

\* --------------------------------------------------------------- constants
\* marker=None of select_data
NoMarker == 0

VARIABLES
    pc,                 \* [m: method being executed, at: the statement reached]
    step,               \* index of that method in the main sequence
    outstanding,        \* number of SDK requests issued and not yet answered
    req,                \* the request issued last
    resp,               \* the response received last
    db,                 \* local variable db of clear() and of the two usage examples
    marker,             \* local variable marker of select_data()
    iterState,          \* iterator1, iterator2 of search_iterator()
    vector_index_type,  \* self._vector_index_type
    returned,           \* the methods that have returned to the main sequence
    dbExists,           \* server: the databases that exist
    tableState,         \* server: state of the table of each database
    indexState,         \* server: state of index vector_idx of book_segments
    rebuild,            \* server: the rebuild requested by rebuild_index
    faults,             \* server: transient errors raised so far
    nselect,            \* select requests issued by select_data()
    ntruncated,         \* truncated pages returned to select_data()
    nbatches,           \* non-empty batches returned to the open iterator
    closes,             \* close() calls received by each iterator
    upserted            \* the rows of each upsert request of upsert_data()

script ==
    <<pc, step, outstanding, req, resp, db, marker, iterState,
      vector_index_type, returned>>
server == <<dbExists, tableState, indexState, rebuild, faults>>
counters == <<nselect, ntruncated, nbatches, closes, upserted>>
vars == <<script, server, counters>>

\* ------------------------------------------------------------ the server's
\* names
Databases == {"book", "test_binary_vec", "test_sparse_vec"}
TableStates == {"ABSENT", "CREATING", "NORMAL", "DROPPING"}
IndexStates == {"ABSENT", "NORMAL", "BUILDING", "DROPPING"}
IndexTypes == {"HNSW", "HNSWPQ", "PUCK", "FLAT"}

\* ------------------------------------------------------ the main sequence
\* the rows upserted before the table is there
MainSequence_upsert_first ==
    << "clear", "upsert_data", "create_db_and_table", "select_data",
       "change_table_schema", "show_table_stats", "query_data",
       "batch_query_data", "vector_search", "search_iterator",
       "bm25_search", "hybrid_search", "update_data", "delete_data",
       "drop_and_create_vindex", "binary_vector_usage_example",
       "sparse_vector_usage_example", "delete_and_drop" >>

\* lines 638-655
MainSequence ==
    << "clear", "create_db_and_table", "upsert_data", "select_data",
       "change_table_schema", "show_table_stats", "query_data",
       "batch_query_data", "vector_search", "search_iterator",
       "bm25_search", "hybrid_search", "update_data", "delete_data",
       "drop_and_create_vindex", "binary_vector_usage_example",
       "sparse_vector_usage_example", "delete_and_drop" >>

\* the first statement of each method
Entry(m) ==
    IF m = "create_db_and_table" THEN "create_database" ELSE "database"

\* the database a method works on
DbOf(m) ==
    CASE m = "binary_vector_usage_example" -> "test_binary_vec"
      [] m = "sparse_vector_usage_example" -> "test_sparse_vec"
      [] OTHER -> "book"

\* statements that issue no SDK request
LocalStatements ==
    {"check_index_type", "init_marker", "iterator1", "iterator1_close",
     "iterator2", "iterator2_close", "exit", "aborted"}

\* the SDK call made by a statement
CallName(at) ==
    CASE at \in {"poll_describe_table"} -> "describe_table"
      [] at \in {"poll_describe_index", "describe_index"} -> "describe_index"
      [] at \in {"topk_search", "range_search", "batch_search", "multi_search"}
            -> "vector_search"
      [] at \in {"iterator1_next", "iterator2_next"} -> "next"
      [] OTHER -> at

Request(p, mk) ==
    [call |-> CallName(p.at), db |-> DbOf(p.m), marker |-> mk]

NoRequest == [call |-> "none", db |-> "none", marker |-> NoMarker]

\* ----------------------------------------------------------- the responses
Ok == [kind |-> "ok", code |-> "", state |-> "", is_truncated |-> FALSE,
       next_marker |-> NoMarker, rows |-> 0]
ClientError == [Ok EXCEPT !.kind = "ClientError"]
ServerError(c) == [Ok EXCEPT !.kind = "ServerError", !.code = c]
Described(s) == [Ok EXCEPT !.state = s]

\* ------------------------------------------------- the rows of upsert_data
\* line 110: dimension=4 of field vector
VectorDimension == 4
\* line 217: i = 6
FirstGenerated == 6
\* line 218: while i <= 100
LastGenerated == 100

\* lines 103-113: the fields of book_segments, with not_null and dimension
\* (0 where the field has none)
schema_fields ==
    << [name |-> "id",         not_null |-> TRUE,  dimension |-> 0],
       [name |-> "bookName",   not_null |-> TRUE,  dimension |-> 0],
       [name |-> "author",     not_null |-> FALSE, dimension |-> 0],
       [name |-> "page",       not_null |-> FALSE, dimension |-> 0],
       [name |-> "segment",    not_null |-> FALSE, dimension |-> 0],
       [name |-> "vector",     not_null |-> TRUE,  dimension |-> VectorDimension],
       [name |-> "arr_field",  not_null |-> TRUE,  dimension |-> 0],
       [name |-> "json_field", not_null |-> FALSE, dimension |-> 0] >>

\* str(i) for i >= 0: the decimal digits of i, without padding
RECURSIVE str(_)
str(i) == IF i < 10 THEN <<i>> ELSE Append(str(i \div 10), i % 10)

\* a Row: its id as the sequence of its characters, its vector in
\* thousandths, and the names of the keyword arguments given to Row()
Row(id, vector, more) ==
    [id |-> id, vector |-> vector,
     fields |-> {"id", "vector", "bookName", "author", "page", "arr_field",
                 "segment"} \cup more]

\* lines 164-215: the five rows written out, ids '0001' to '0005'
literal_rows ==
    << Row(<<0, 0, 0, 1>>, <<1000, 210, 213, 0>>, {"json_field"}),
       Row(<<0, 0, 0, 2>>, <<2000, 220, 213, 0>>, {"json_field"}),
       Row(<<0, 0, 0, 3>>, <<3000, 230, 213, 0>>, {"json_field"}),
       Row(<<0, 0, 0, 4>>, <<4000, 240, 213, 0>>, {"json_field"}),
       Row(<<0, 0, 0, 5>>, <<5000, 250, 213, 0>>, {"json_field"}) >>

\* lines 219-226: the row appended for i; vector=[i, 0.2 + i * 0.01, 0.213, 0]
generated_row(i) == Row(str(i), <<i * 1000, 200 + i * 10, 213, 0>>, {})

\* lines 217-227: i = first; while i <= last: rows.append(...); i += 1,
\* that is rows followed by the rows generated for first, ..., last
RECURSIVE append_rows(_, _, _)
append_rows(rows, first, last) ==
    IF first <= last
    THEN Append(append_rows(rows, first, last - 1), generated_row(last))
    ELSE rows

\* the loop stopped one row early: while i < 100
upsert_rows_short == append_rows(literal_rows, FirstGenerated, LastGenerated - 1)

\* lines 164-227: the rows passed to table.upsert at line 229
upsert_rows == append_rows(literal_rows, FirstGenerated, LastGenerated)

\* ------------------------------------------------------------------- Init
StartOf(i) ==
    IF i <= Len(MainSequence)
    THEN [m |-> MainSequence[i], at |-> Entry(MainSequence[i])]
    ELSE [m |-> "exit", at |-> "exit"]

Init ==
    /\ step = 1
    /\ pc = StartOf(1)
    /\ outstanding = 0
    /\ req = NoRequest
    /\ resp = Ok
    /\ db = "None"
    /\ marker = NoMarker
    /\ iterState = [i \in 1..2 |-> "none"]
    /\ vector_index_type \in IndexTypes
    /\ returned = {}
    \* what an earlier run, completed or aborted, left on the server
    /\ dbExists \in [Databases -> BOOLEAN]
    /\ tableState \in [Databases -> {"ABSENT", "NORMAL"}]
    /\ \A d \in Databases : ~dbExists[d] => tableState[d] = "ABSENT"
    /\ indexState = IF tableState["book"] = "NORMAL" THEN "NORMAL" ELSE "ABSENT"
    /\ rebuild = "none"
    /\ faults = 0
    /\ nselect = 0
    /\ ntruncated = 0
    /\ nbatches = 0
    /\ closes = [i \in 1..2 |-> 0]
    /\ upserted = <<>>

\* ------------------------------------------------------- control transfer
Running == pc.m \notin {"exit", "aborted"}

Goto(l) ==
    /\ pc' = [pc EXCEPT !.at = l]
    /\ step' = step
    /\ returned' = returned

\* the method returns to the main sequence, which calls the next one
Return ==
    /\ step' = step + 1
    /\ pc' = StartOf(step + 1)
    /\ returned' = returned \cup {pc.m}

\* an exception nobody catches ends the script
Raise ==
    /\ pc' = [m |-> "aborted", at |-> "aborted"]
    /\ step' = step
    /\ returned' = returned

\* the blocking call at statement l of method m is answered with r
Answered(m, l, r) ==
    /\ pc = [m |-> m, at |-> l]
    /\ outstanding = 1
    /\ outstanding' = 0
    /\ resp' = r
    /\ req' = req

\* a statement issues its request and blocks until the answer
Issue ==
    /\ Running
    /\ pc.at \notin LocalStatements
    /\ outstanding = 0
    /\ outstanding' = 1
    /\ req' = Request(pc, IF pc.at = "select" THEN marker ELSE NoMarker)
    /\ nselect' = IF pc.at = "select" THEN nselect + 1 ELSE nselect
    /\ upserted' = IF pc = [m |-> "upsert_data", at |-> "upsert"]
                   THEN Append(upserted, upsert_rows)
                   ELSE upserted
    /\ UNCHANGED <<pc, step, resp, db, marker, iterState, vector_index_type>>
    /\ UNCHANGED <<returned, server, ntruncated, nbatches, closes>>

\* --------------------------------------------------- the server's changes
\* the changes a request makes on the server when the server accepts it
SrvUnchanged == UNCHANGED server

SrvCreateDatabase(d) ==
    /\ dbExists' = [dbExists EXCEPT ![d] = TRUE]
    /\ UNCHANGED <<tableState, indexState, rebuild, faults>>

\* the table is created asynchronously; book_segments comes with vector_idx
SrvCreateTable(d) ==
    /\ tableState' = [tableState EXCEPT ![d] = "CREATING"]
    /\ indexState' = IF d = "book" THEN "NORMAL" ELSE indexState
    /\ UNCHANGED <<dbExists, rebuild, faults>>

\* the table is removed asynchronously
SrvDropTable(d) ==
    /\ tableState' = [tableState EXCEPT ![d] = "DROPPING"]
    /\ UNCHANGED <<dbExists, indexState, rebuild, faults>>

SrvDropDatabase(d) ==
    /\ dbExists' = [dbExists EXCEPT ![d] = FALSE]
    /\ tableState' = [tableState EXCEPT ![d] = "ABSENT"]
    /\ indexState' = IF d = "book" THEN "ABSENT" ELSE indexState
    /\ rebuild' = IF d = "book" THEN "none" ELSE rebuild
    /\ UNCHANGED faults

\* the rebuild is started and completed asynchronously
SrvRebuildIndex ==
    /\ rebuild' = "pending"
    /\ UNCHANGED <<dbExists, tableState, indexState, faults>>

\* the index is removed asynchronously
SrvDropIndex ==
    /\ indexState' = "DROPPING"
    /\ rebuild' = "none"
    /\ UNCHANGED <<dbExists, tableState, faults>>

SrvCreateIndexes ==
    /\ indexState' = "NORMAL"
    /\ UNCHANGED <<dbExists, tableState, rebuild, faults>>

\* a transient error of the server; nothing changes but the count
SrvFault ==
    /\ faults < MaxFaults
    /\ faults' = faults + 1
    /\ UNCHANGED <<dbExists, tableState, indexState, rebuild>>

\* the server's asynchronous steps
TableReady ==
    /\ \E d \in Databases :
        /\ tableState[d] = "CREATING"
        /\ tableState' = [tableState EXCEPT ![d] = "NORMAL"]
    /\ UNCHANGED <<dbExists, indexState, rebuild, faults>>
    /\ UNCHANGED <<script, counters>>

TableRemoved ==
    /\ \E d \in Databases :
        /\ tableState[d] = "DROPPING"
        /\ tableState' = [tableState EXCEPT ![d] = "ABSENT"]
        /\ indexState' = IF d = "book" THEN "ABSENT" ELSE indexState
        /\ rebuild' = IF d = "book" THEN "none" ELSE rebuild
    /\ UNCHANGED <<dbExists, faults>>
    /\ UNCHANGED <<script, counters>>

RebuildStart ==
    /\ rebuild = "pending"
    /\ indexState = "NORMAL"
    /\ rebuild' = "running"
    /\ indexState' = "BUILDING"
    /\ UNCHANGED <<dbExists, tableState, faults>>
    /\ UNCHANGED <<script, counters>>

RebuildFinish ==
    /\ rebuild = "running"
    /\ rebuild' = "none"
    /\ indexState' = "NORMAL"
    /\ UNCHANGED <<dbExists, tableState, faults>>
    /\ UNCHANGED <<script, counters>>

IndexRemoved ==
    /\ indexState = "DROPPING"
    /\ indexState' = "ABSENT"
    /\ UNCHANGED <<dbExists, tableState, rebuild, faults>>
    /\ UNCHANGED <<script, counters>>

\* ------------------------------------------------------------ the script
\* what a step of the script leaves alone besides pc, step, outstanding,
\* req, resp and the server
Locals == <<db, marker, iterState, vector_index_type>>

\* the test of db never true: the clean-up is skipped
db_is_taken_for_None(d) == FALSE

\* the test of db left out: the clean-up runs whatever database() gave
db_is_unchecked(d) == TRUE

\* line 82 and lines 542, 587: if db is not None
db_is_not_None(d) == d # "None"

\* lines 85-88: except ServerError as e, whose body logs e, compares e.code
\* with TABLE_NOT_EXIST and passes; nothing is raised again
clear_ignores(r) == r.kind = "ServerError"

\* lines 74-90
clear ==
    \/ \* 75-80: db = self._client.database('book'), ClientError is ignored
       /\ \/ /\ dbExists["book"]
             /\ Answered("clear", "database", Ok)
             /\ db' = "book"
          \/ /\ ~dbExists["book"]
             /\ Answered("clear", "database", ClientError)
             /\ db' = "None"
       /\ IF db_is_not_None(db')             \* 82
          THEN Goto("drop_table")
          ELSE Return
       /\ SrvUnchanged
       /\ UNCHANGED <<marker, iterState, vector_index_type, counters>>
    \/ \* 83-88: db.drop_table('book_segments'); the handler of ServerError
       \* logs, compares the code and raises nothing
       /\ \/ /\ tableState["book"] # "ABSENT"
             /\ Answered("clear", "drop_table", Ok)
             /\ SrvDropTable("book")
          \/ /\ tableState["book"] = "ABSENT"
             /\ Answered("clear", "drop_table", ServerError("TABLE_NOT_EXIST"))
             /\ SrvUnchanged
          \/ /\ Answered("clear", "drop_table", ServerError("INTERNAL_ERROR"))
             /\ SrvFault
       /\ IF resp'.kind = "ok" \/ clear_ignores(resp')
          THEN Goto("drop_database")          \* 89: time.sleep(10)
          ELSE Raise
       /\ UNCHANGED <<Locals, counters>>
    \/ \* 90: db.drop_database()
       /\ \/ /\ Answered("clear", "drop_database", Ok)
             /\ SrvDropDatabase("book")
             /\ Return
          \/ /\ tableState["book"] # "ABSENT"
             /\ Answered("clear", "drop_database", ServerError("DB_NOT_EMPTY"))
             /\ SrvUnchanged
             /\ Raise
       /\ UNCHANGED <<Locals, counters>>

\* the loop left as soon as describe_table reports any state
table_is_described(r) == r.state # ""

\* the final else of the chain left out: any type passes
index_type_unchecked(t) == TRUE

\* lines 116-129 and 488-501: the if/elif chain over HNSW, HNSWPQ and PUCK,
\* whose else raises Exception("not support index type")
index_type_supported(t) == t \in {"HNSW", "HNSWPQ", "PUCK"}

\* line 149: if table.state == TableState.NORMAL: break
table_is_normal(r) == r.state = "NORMAL"

\* lines 92-157
create_db_and_table ==
    \/ \* 97: db = self._client.create_database(database)
       /\ \/ /\ ~dbExists["book"]
             /\ Answered("create_db_and_table", "create_database", Ok)
             /\ SrvCreateDatabase("book")
             /\ db' = "book"
             /\ Goto("list_databases")
          \/ /\ dbExists["book"]
             /\ Answered("create_db_and_table", "create_database",
                         ServerError("DB_ALREADY_EXIST"))
             /\ SrvUnchanged
             /\ db' = db
             /\ Raise
       /\ UNCHANGED <<marker, iterState, vector_index_type, counters>>
    \/ \* 99-101: database_list = self._client.list_databases()
       /\ Answered("create_db_and_table", "list_databases", Ok)
       /\ SrvUnchanged
       /\ Goto("check_index_type")
       /\ UNCHANGED <<Locals, counters>>
    \/ \* 116-129: the vector index of the configured type, or an exception
       /\ pc = [m |-> "create_db_and_table", at |-> "check_index_type"]
       /\ IF index_type_supported(vector_index_type)
          THEN Goto("create_table")
          ELSE Raise
       /\ SrvUnchanged
       /\ UNCHANGED <<outstanding, req, resp, Locals, counters>>
    \/ \* 139-144: db.create_table(...)
       /\ Answered("create_db_and_table", "create_table", Ok)
       /\ SrvCreateTable("book")
       /\ Goto("poll_describe_table")
       /\ UNCHANGED <<Locals, counters>>
    \/ \* 146-150: while True: sleep; describe_table; break when NORMAL
       /\ Answered("create_db_and_table", "poll_describe_table",
                   Described(tableState["book"]))
       /\ SrvUnchanged
       /\ IF table_is_normal(resp')
          THEN Goto("modify_table")
          ELSE Goto("poll_describe_table")
       /\ UNCHANGED <<Locals, counters>>
    \/ \* 152-157: db.modify_table(...)
       /\ Answered("create_db_and_table", "modify_table", Ok)
       /\ SrvUnchanged
       /\ Return
       /\ UNCHANGED <<Locals, counters>>

\* the opening lines of the methods that work on book_segments:
\*   db = self._client.database('book'); table = db.table('book_segments')
OpenTable(m, next) ==
    \/ /\ \/ /\ dbExists["book"]
             /\ Answered(m, "database", Ok)
             /\ Goto("table")
          \/ /\ ~dbExists["book"]
             /\ Answered(m, "database", ClientError)
             /\ Raise
       /\ SrvUnchanged
       /\ UNCHANGED <<Locals, counters>>
    \/ /\ \/ /\ tableState["book"] # "ABSENT"
             /\ Answered(m, "table", Ok)
             /\ Goto(next)
          \/ /\ tableState["book"] = "ABSENT"
             /\ Answered(m, "table", ServerError("TABLE_NOT_EXIST"))
             /\ Raise
       /\ SrvUnchanged
       /\ UNCHANGED <<Locals, counters>>

\* a request on the rows of the table, served by a table in state NORMAL
RowRequest(m, l, next) ==
    /\ \/ /\ tableState[DbOf(m)] = "NORMAL"
          /\ Answered(m, l, Ok)
          /\ IF next = "return" THEN Return ELSE Goto(next)
       \/ /\ tableState[DbOf(m)] # "NORMAL"
          /\ Answered(m, l, ServerError("TABLE_NOT_READY"))
          /\ Raise
    /\ SrvUnchanged
    /\ UNCHANGED <<Locals, counters>>

\* lines 159-230
upsert_data ==
    \/ OpenTable("upsert_data", "upsert")
    \/ RowRequest("upsert_data", "upsert", "return")

\* lines 232-241
change_table_schema ==
    \/ OpenTable("change_table_schema", "add_fields")
    \/ RowRequest("change_table_schema", "add_fields", "return")

\* lines 243-249
show_table_stats ==
    \/ OpenTable("show_table_stats", "stats")
    \/ RowRequest("show_table_stats", "stats", "return")

\* lines 251-260
query_data ==
    \/ OpenTable("query_data", "query")
    \/ RowRequest("query_data", "query", "return")

\* lines 262-272
batch_query_data ==
    \/ OpenTable("batch_query_data", "batch_query")
    \/ RowRequest("batch_query_data", "batch_query", "return")

\* lines 395-405
bm25_search ==
    \/ OpenTable("bm25_search", "bm25_search")
    \/ RowRequest("bm25_search", "bm25_search", "return")

\* lines 407-431
hybrid_search ==
    \/ OpenTable("hybrid_search", "hybrid_search")
    \/ RowRequest("hybrid_search", "hybrid_search", "return")

\* lines 451-462
update_data ==
    \/ OpenTable("update_data", "update")
    \/ RowRequest("update_data", "update", "return")

\* lines 464-471
delete_data ==
    \/ OpenTable("delete_data", "delete")
    \/ RowRequest("delete_data", "delete", "return")

\* line 444: if res.is_truncated is False: break
select_finished(r) == r.is_truncated = FALSE

\* the marker never advanced
first_select_marker(r) == NoMarker

\* line 449: marker = res.next_marker
next_select_marker(r) == r.next_marker

\* lines 433-449
select_data ==
    \/ OpenTable("select_data", "init_marker")
    \/ \* 439-440: marker = None
       /\ pc = [m |-> "select_data", at |-> "init_marker"]
       /\ marker' = NoMarker
       /\ Goto("select")
       /\ SrvUnchanged
       /\ UNCHANGED <<outstanding, req, resp, db, iterState, vector_index_type>>
       /\ UNCHANGED counters
    \/ \* 441-449: res = table.select(marker=marker, ...); the server returns
       \* a last page, or a truncated page and the marker of the next one
       /\ tableState["book"] = "NORMAL"
       /\ \/ /\ Answered("select_data", "select", Ok)
             /\ ntruncated' = ntruncated
          \/ /\ ntruncated < MaxPages
             /\ \E nm \in 1..MaxMarker :
                  Answered("select_data", "select",
                           [Ok EXCEPT !.is_truncated = TRUE, !.next_marker = nm])
             /\ ntruncated' = ntruncated + 1
       /\ IF select_finished(resp')
          THEN Return /\ marker' = marker
          ELSE Goto("select") /\ marker' = next_select_marker(resp')
       /\ SrvUnchanged
       /\ UNCHANGED <<db, iterState, vector_index_type>>
       /\ UNCHANGED <<upserted, nselect, nbatches, closes>>

\* the loop left as soon as describe_index reports any state
index_is_described(r) == r.state # ""

\* line 283: if index.state == IndexState.NORMAL: break
index_is_normal(r) == r.state = "NORMAL"

\* lines 274-349
vector_search ==
    \/ OpenTable("vector_search", "rebuild_index")
    \/ \* 279: table.rebuild_index("vector_idx")
       /\ \/ /\ indexState \in {"NORMAL", "BUILDING"}
             /\ Answered("vector_search", "rebuild_index", Ok)
             /\ SrvRebuildIndex
             /\ Goto("poll_describe_index")
          \/ /\ indexState \notin {"NORMAL", "BUILDING"}
             /\ Answered("vector_search", "rebuild_index",
                         ServerError("INDEX_NOT_EXIST"))
             /\ SrvUnchanged
             /\ Raise
       /\ UNCHANGED <<Locals, counters>>
    \/ \* 280-284: while True: sleep; describe_index; break when NORMAL
       /\ \/ /\ indexState # "ABSENT"
             /\ Answered("vector_search", "poll_describe_index",
                         Described(indexState))
             /\ IF index_is_normal(resp')
                THEN Goto("topk_search")
                ELSE Goto("poll_describe_index")
          \/ /\ indexState = "ABSENT"
             /\ Answered("vector_search", "poll_describe_index",
                         ServerError("INDEX_NOT_EXIST"))
             /\ Raise
       /\ SrvUnchanged
       /\ UNCHANGED <<Locals, counters>>
    \/ \* 286-296
       RowRequest("vector_search", "topk_search", "range_search")
    \/ \* 298-309
       RowRequest("vector_search", "range_search", "batch_search")
    \/ \* 311-325
       RowRequest("vector_search", "batch_search", "multi_search")
    \/ \* 327-349
       RowRequest("vector_search", "multi_search", "return")

\* the test of rows inverted
has_rows(r) == r.rows # 0

\* lines 364, 389: if not rows: break
not_rows(r) == r.rows = 0

\* lines 361-367 and 386-392: iterator i of search_iterator(); after is the
\* statement that follows its close()
Iterate(i, open, next, close, after) ==
    \/ \* iterator = table.search_iterator(...)
       /\ pc = [m |-> "search_iterator", at |-> open]
       /\ outstanding = 0
       /\ iterState' = [iterState EXCEPT ![i] = "open"]
       /\ nbatches' = 0
       /\ Goto(next)
       /\ SrvUnchanged
       /\ UNCHANGED <<outstanding, req, resp, db, marker, vector_index_type>>
       /\ UNCHANGED <<upserted, nselect, ntruncated, closes>>
    \/ \* while True: rows = iterator.next(); if not rows: break
       /\ \/ /\ tableState["book"] = "NORMAL"
             /\ nbatches < MaxBatches
             /\ Answered("search_iterator", next, [Ok EXCEPT !.rows = 1])
             /\ nbatches' = nbatches + 1
             /\ iterState' = iterState
             /\ IF not_rows(resp') THEN Goto(close) ELSE Goto(next)
          \/ /\ tableState["book"] = "NORMAL"
             /\ Answered("search_iterator", next, Ok)
             /\ nbatches' = nbatches
             /\ iterState' = [iterState EXCEPT ![i] = "exhausted"]
             /\ IF not_rows(resp') THEN Goto(close) ELSE Goto(next)
          \/ /\ tableState["book"] # "NORMAL"
             /\ Answered("search_iterator", next, ServerError("TABLE_NOT_READY"))
             /\ nbatches' = nbatches
             /\ iterState' = iterState
             /\ Raise
       /\ SrvUnchanged
       /\ UNCHANGED <<db, marker, vector_index_type>>
       /\ UNCHANGED <<upserted, nselect, ntruncated, closes>>
    \/ \* iterator.close()
       /\ pc = [m |-> "search_iterator", at |-> close]
       /\ outstanding = 0
       /\ iterState' = [iterState EXCEPT ![i] = "closed"]
       /\ closes' = [closes EXCEPT ![i] = closes[i] + 1]
       /\ IF after = "return" THEN Return ELSE Goto(after)
       /\ SrvUnchanged
       /\ UNCHANGED <<outstanding, req, resp, db, marker, vector_index_type>>
       /\ UNCHANGED <<upserted, nselect, ntruncated, nbatches>>

\* lines 351-393
search_iterator ==
    \/ OpenTable("search_iterator", "iterator1")
    \/ Iterate(1, "iterator1", "iterator1_next", "iterator1_close", "iterator2")
    \/ Iterate(2, "iterator2", "iterator2_next", "iterator2_close", "return")

\* the wait ended by any ServerError
any_server_error(r) == r.kind = "ServerError"

\* lines 482-485: except ServerError as e: if e.code == INDEX_NOT_EXIST: break
index_not_exist(r) == r.kind = "ServerError" /\ r.code = "INDEX_NOT_EXIST"

\* lines 473-507
drop_and_create_vindex ==
    \/ OpenTable("drop_and_create_vindex", "drop_index")
    \/ \* 477: table.drop_index("vector_idx")
       /\ \/ /\ indexState \in {"NORMAL", "BUILDING"}
             /\ Answered("drop_and_create_vindex", "drop_index", Ok)
             /\ SrvDropIndex
             /\ Goto("poll_describe_index")
          \/ /\ indexState \notin {"NORMAL", "BUILDING"}
             /\ Answered("drop_and_create_vindex", "drop_index",
                         ServerError("INDEX_NOT_EXIST"))
             /\ SrvUnchanged
             /\ Raise
       /\ UNCHANGED <<Locals, counters>>
    \/ \* 478-485: while True: sleep; describe_index; break when it raises
       \* ServerError with code INDEX_NOT_EXIST
       /\ \/ /\ indexState # "ABSENT"
             /\ Answered("drop_and_create_vindex", "poll_describe_index",
                         Described(indexState))
             /\ SrvUnchanged
          \/ /\ indexState = "ABSENT"
             /\ Answered("drop_and_create_vindex", "poll_describe_index",
                         ServerError("INDEX_NOT_EXIST"))
             /\ SrvUnchanged
          \/ /\ Answered("drop_and_create_vindex", "poll_describe_index",
                         ServerError("INTERNAL_ERROR"))
             /\ SrvFault
       /\ IF index_not_exist(resp')
          THEN Goto("check_index_type")
          ELSE Goto("poll_describe_index")
       /\ UNCHANGED <<Locals, counters>>
    \/ \* 487-501: the vector index of the configured type, or an exception
       /\ pc = [m |-> "drop_and_create_vindex", at |-> "check_index_type"]
       /\ IF index_type_supported(vector_index_type)
          THEN Goto("create_indexes")
          ELSE Raise
       /\ SrvUnchanged
       /\ UNCHANGED <<outstanding, req, resp, Locals, counters>>
    \/ \* 502-503: table.create_indexes(indexes)
       /\ \/ /\ indexState = "ABSENT"
             /\ Answered("drop_and_create_vindex", "create_indexes", Ok)
             /\ SrvCreateIndexes
             /\ Goto("modify_index")
          \/ /\ indexState # "ABSENT"
             /\ Answered("drop_and_create_vindex", "create_indexes",
                         ServerError("INDEX_ALREADY_EXIST"))
             /\ SrvUnchanged
             /\ Raise
       /\ UNCHANGED <<Locals, counters>>
    \/ \* 504-505: table.modify_index(...)
       /\ Answered("drop_and_create_vindex", "modify_index", Ok)
       /\ SrvUnchanged
       /\ Goto("describe_index")
       /\ UNCHANGED <<Locals, counters>>
    \/ \* 506-507: index = table.describe_index("vector_idx")
       /\ Answered("drop_and_create_vindex", "describe_index",
                   Described(indexState))
       /\ SrvUnchanged
       /\ Return
       /\ UNCHANGED <<Locals, counters>>

\* lines 533-575 and 578-627: the two usage examples differ in the names and
\* in the rows they build
UsageExample(m) ==
    \/ \* 537-541, 582-586: db = self._client.database(database)
       /\ \/ /\ dbExists[DbOf(m)]
             /\ Answered(m, "database", Ok)
             /\ db' = DbOf(m)
          \/ /\ ~dbExists[DbOf(m)]
             /\ Answered(m, "database", ClientError)
             /\ db' = "None"
       /\ IF db_is_not_None(db')             \* 542, 587
          THEN Goto("drop_table")
          ELSE Goto("create_database")
       /\ SrvUnchanged
       /\ UNCHANGED <<marker, iterState, vector_index_type, counters>>
    \/ \* 543-547, 588-592: db.drop_table(table_name), ServerError is ignored
       /\ \/ /\ tableState[DbOf(m)] # "ABSENT"
             /\ Answered(m, "drop_table", Ok)
             /\ SrvDropTable(DbOf(m))
          \/ /\ tableState[DbOf(m)] = "ABSENT"
             /\ Answered(m, "drop_table", ServerError("TABLE_NOT_EXIST"))
             /\ SrvUnchanged
          \/ /\ Answered(m, "drop_table", ServerError("INTERNAL_ERROR"))
             /\ SrvFault
       /\ Goto("drop_database")
       /\ UNCHANGED <<Locals, counters>>
    \/ \* 548, 593: db.drop_database()
       /\ \/ /\ Answered(m, "drop_database", Ok)
             /\ SrvDropDatabase(DbOf(m))
             /\ Goto("create_database")
          \/ /\ tableState[DbOf(m)] # "ABSENT"
             /\ Answered(m, "drop_database", ServerError("DB_NOT_EMPTY"))
             /\ SrvUnchanged
             /\ Raise
       /\ UNCHANGED <<Locals, counters>>
    \/ \* 550, 595: db = self._client.create_database(database)
       /\ \/ /\ ~dbExists[DbOf(m)]
             /\ Answered(m, "create_database", Ok)
             /\ SrvCreateDatabase(DbOf(m))
             /\ db' = DbOf(m)
             /\ Goto("create_table")
          \/ /\ dbExists[DbOf(m)]
             /\ Answered(m, "create_database", ServerError("DB_ALREADY_EXIST"))
             /\ SrvUnchanged
             /\ db' = db
             /\ Raise
       /\ UNCHANGED <<marker, iterState, vector_index_type, counters>>
    \/ \* 556-557, 607-609: db.create_table(...)
       /\ \/ /\ tableState[DbOf(m)] = "ABSENT"
             /\ Answered(m, "create_table", Ok)
             /\ SrvCreateTable(DbOf(m))
             /\ Goto("poll_describe_table")
          \/ /\ tableState[DbOf(m)] # "ABSENT"
             /\ Answered(m, "create_table", ServerError("TABLE_ALREADY_EXIST"))
             /\ SrvUnchanged
             /\ Raise
       /\ UNCHANGED <<Locals, counters>>
    \/ \* 558-561, 610-613: while True: sleep; describe_table; break when NORMAL
       /\ Answered(m, "poll_describe_table", Described(tableState[DbOf(m)]))
       /\ SrvUnchanged
       /\ IF resp'.state = "NORMAL"
          THEN Goto("table")
          ELSE Goto("poll_describe_table")
       /\ UNCHANGED <<Locals, counters>>
    \/ \* 564, 617: table = db.table(table_name)
       /\ Answered(m, "table", Ok)
       /\ SrvUnchanged
       /\ Goto("upsert")
       /\ UNCHANGED <<Locals, counters>>
    \/ \* 565-569, 616-621: table.upsert(rows=rows)
       RowRequest(m, "upsert", "vector_search")
    \/ \* 572-575, 624-627: table.vector_search(request=request)
       RowRequest(m, "vector_search", "return")

\* lines 519-575
binary_vector_usage_example == UsageExample("binary_vector_usage_example")

\* lines 577-627
sparse_vector_usage_example == UsageExample("sparse_vector_usage_example")

\* lines 509-517
delete_and_drop ==
    \/ \* 511: db = self._client.database('book')
       /\ \/ /\ dbExists["book"]
             /\ Answered("delete_and_drop", "database", Ok)
             /\ db' = "book"
             /\ Goto("drop_table")
          \/ /\ ~dbExists["book"]
             /\ Answered("delete_and_drop", "database", ClientError)
             /\ db' = db
             /\ Raise
       /\ SrvUnchanged
       /\ UNCHANGED <<marker, iterState, vector_index_type, counters>>
    \/ \* 513-514: db.drop_table('book_segments'); time.sleep(10)
       /\ \/ /\ tableState["book"] # "ABSENT"
             /\ Answered("delete_and_drop", "drop_table", Ok)
             /\ SrvDropTable("book")
             /\ Goto("drop_database")
          \/ /\ tableState["book"] = "ABSENT"
             /\ Answered("delete_and_drop", "drop_table",
                         ServerError("TABLE_NOT_EXIST"))
             /\ SrvUnchanged
             /\ Raise
       /\ UNCHANGED <<Locals, counters>>
    \/ \* 516: db.drop_database()
       /\ \/ /\ Answered("delete_and_drop", "drop_database", Ok)
             /\ SrvDropDatabase("book")
             /\ Goto("close")
          \/ /\ tableState["book"] # "ABSENT"
             /\ Answered("delete_and_drop", "drop_database",
                         ServerError("DB_NOT_EMPTY"))
             /\ SrvUnchanged
             /\ Raise
       /\ UNCHANGED <<Locals, counters>>
    \/ \* 517: self._client.close()
       /\ Answered("delete_and_drop", "close", Ok)
       /\ SrvUnchanged
       /\ Return
       /\ UNCHANGED <<Locals, counters>>

\* ------------------------------------------------------ the specification
Script ==
    \/ Issue
    \/ clear
    \/ create_db_and_table
    \/ upsert_data
    \/ select_data
    \/ change_table_schema
    \/ show_table_stats
    \/ query_data
    \/ batch_query_data
    \/ vector_search
    \/ search_iterator
    \/ bm25_search
    \/ hybrid_search
    \/ update_data
    \/ delete_data
    \/ drop_and_create_vindex
    \/ binary_vector_usage_example
    \/ sparse_vector_usage_example
    \/ delete_and_drop

Next ==
    \/ Script
    \/ TableReady
    \/ TableRemoved
    \/ RebuildStart
    \/ RebuildFinish
    \/ IndexRemoved

Spec == Init /\ [][Next]_vars

\* the script is a running thread: a statement that can execute does, and
\* the server answers the request it has accepted
FairSpec == Spec /\ WF_vars(Script)

\* The methods of TestMochow are public.  A script that calls
\* drop_and_create_vindex() first, on an object of any index type, against
\* the table book_segments an earlier run left behind, and goes on with the
\* rest of the main sequence.
InitResumed ==
    /\ step \in {i \in 1..Len(MainSequence) :
                   MainSequence[i] = "drop_and_create_vindex"}
    /\ pc = StartOf(step)
    /\ outstanding = 0
    /\ req = NoRequest
    /\ resp = Ok
    /\ db = "None"
    /\ marker = NoMarker
    /\ iterState = [i \in 1..2 |-> "none"]
    /\ vector_index_type \in IndexTypes
    /\ returned = {}
    /\ dbExists \in [Databases -> BOOLEAN]
    /\ tableState \in [Databases -> {"ABSENT", "NORMAL"}]
    /\ \A d \in Databases : ~dbExists[d] => tableState[d] = "ABSENT"
    /\ tableState["book"] = "NORMAL"
    /\ indexState = "NORMAL"
    /\ rebuild = "none"
    /\ faults = 0
    /\ nselect = 0
    /\ ntruncated = 0
    /\ nbatches = 0
    /\ closes = [i \in 1..2 |-> 0]
    /\ upserted = <<>>

\* the main sequence, or the sequence resumed at drop_and_create_vindex()
ResumeSpec == (Init \/ InitResumed) /\ [][Next]_vars

TypeOK ==
    /\ step \in 1..(Len(MainSequence) + 1)
    /\ outstanding \in 0..1
    /\ db \in Databases \cup {"None"}
    /\ marker \in 0..MaxMarker
    /\ iterState \in [1..2 -> {"none", "open", "exhausted", "closed"}]
    /\ vector_index_type \in IndexTypes
    /\ dbExists \in [Databases -> BOOLEAN]
    /\ tableState \in [Databases -> TableStates]
    /\ indexState \in IndexStates
    /\ returned \subseteq {MainSequence[i] : i \in 1..Len(MainSequence)}
    /\ rebuild \in {"none", "pending", "running"}
    /\ faults \in 0..MaxFaults

\* ---------------------------------------------------------- the properties
\* a step in which the script issues a request, and one in which the
\* outstanding request is answered
Issues == outstanding = 0 /\ outstanding' = 1
Answers == outstanding = 1 /\ outstanding' = 0

At(m, l) == pc = [m |-> m, at |-> l]

\* C1: in create_db_and_table(), modify_table is issued, and the method
\* returns, only after the describe_table response before it reported state
\* NORMAL; after create_table and after every describe_table response that
\* reports another state the only request the script issues is describe_table.
C1_ModifyOnlyAfterNormal ==
    [][ pc.m = "create_db_and_table" =>
          /\ (Issues /\ req'.call = "modify_table") =>
                /\ req.call = "describe_table"
                /\ resp.kind = "ok"
                /\ resp.state = "NORMAL"
          /\ (Issues /\ \/ req.call = "create_table"
                        \/ req.call = "describe_table" /\ resp.state # "NORMAL") =>
                req'.call = "describe_table"
          /\ "create_db_and_table" \in returned' => req.call = "modify_table"
      ]_vars

\* modify_table has been issued, after a poll that saw the table CREATING
\* was followed by one that saw it NORMAL
C1_Witness ==
    /\ At("create_db_and_table", "modify_table")
    /\ outstanding = 1
    /\ req.call = "modify_table"
    /\ resp.state = "NORMAL"

\* C2: in clear(), when client.database('book') raises ClientError the method
\* returns normally at once, without drop_table or drop_database; when
\* drop_table raises ServerError with code TABLE_NOT_EXIST the next request
\* is drop_database, and clear() returns normally when it is answered.
C2_ClearToleratesNotFound ==
    [][ /\ (At("clear", "database") /\ Answers /\ resp'.kind = "ClientError") =>
              /\ "clear" \in returned'
              /\ pc'.m \notin {"clear", "aborted"}
        /\ (At("clear", "drop_table") /\ Answers
              /\ resp' = ServerError("TABLE_NOT_EXIST")) =>
              pc' = [m |-> "clear", at |-> "drop_database"]
        /\ (At("clear", "drop_database") /\ resp = ServerError("TABLE_NOT_EXIST")
              /\ <<pc, outstanding>>' # <<pc, outstanding>>) =>
              \/ Issues /\ req'.call = "drop_database" /\ pc' = pc
              \/ Answers /\ resp'.kind = "ok" /\ "clear" \in returned'
      ]_vars

\* drop_database is outstanding after drop_table raised TABLE_NOT_EXIST
C2_Witness ==
    /\ At("clear", "drop_database")
    /\ outstanding = 1
    /\ req.call = "drop_database"
    /\ resp = ServerError("TABLE_NOT_EXIST")

\* C3: in clear(), a ServerError raised by drop_table with a code other than
\* TABLE_NOT_EXIST propagates out of clear(), so that drop_database is not
\* issued.
C3_OtherServerErrorPropagates ==
    [][ (At("clear", "drop_table") /\ Answers /\ resp'.kind = "ServerError"
           /\ resp'.code # "TABLE_NOT_EXIST") =>
           pc'.m = "aborted"
      ]_vars

\* the order of the steps that C4 states
C4_Order ==
    << "clear", "create_db_and_table", "upsert_data", "select_data",
       "change_table_schema", "show_table_stats", "query_data",
       "batch_query_data", "vector_search", "search_iterator", "bm25_search",
       "hybrid_search", "update_data", "delete_data", "drop_and_create_vindex",
       "binary_vector_usage_example", "sparse_vector_usage_example",
       "delete_and_drop" >>

\* the requests on the rows of a table and the searches
C4_RowAndSearchCalls ==
    {"upsert", "select", "query", "batch_query", "update", "delete",
     "vector_search", "next", "bm25_search", "hybrid_search"}

\* C4: the main sequence is strictly sequential: at most one SDK request is
\* outstanding and a request is issued only when none is; the methods run in
\* the order clear, create_db_and_table, ..., delete_and_drop, each entered
\* when the one before it returned; a row or search request on book_segments
\* is issued only after create_db_and_table returned and before
\* delete_and_drop is entered; after client.close() no request is issued.
C4_StrictlySequential ==
    /\ pc.m = C4_Order[1]
    /\ [](outstanding \in {0, 1})
    /\ [][ /\ outstanding' > outstanding => outstanding = 0 /\ outstanding' = 1
           /\ pc'.m # pc.m =>
                \/ pc'.m = "aborted"
                \/ \E i \in 1..Len(C4_Order) :
                     /\ pc.m = C4_Order[i]
                     /\ outstanding' = 0
                     /\ returned' = {C4_Order[j] : j \in 1..i}
                     /\ pc'.m = IF i < Len(C4_Order)
                                THEN C4_Order[i + 1] ELSE "exit"
           /\ (Issues /\ req'.call \in C4_RowAndSearchCalls /\ req'.db = "book") =>
                /\ "create_db_and_table" \in returned
                /\ pc.m # "delete_and_drop"
                /\ "delete_and_drop" \notin returned
           /\ req.call = "close" => ~Issues /\ req' = req
         ]_vars

\* the whole sequence has run: close() was answered and the script is over
C4_Witness ==
    /\ pc.m = "exit"
    /\ req.call = "close"
    /\ outstanding = 0
    /\ returned = {C4_Order[j] : j \in 1..Len(C4_Order)}

\* C5: in vector_search(), a table.vector_search request is issued only when
\* the rebuild requested by rebuild_index('vector_idx') has finished: none is
\* issued while the rebuild is pending or running on the server.
C5_SearchOnlyAfterRebuild ==
    [][ (pc.m = "vector_search" /\ Issues /\ req'.call = "vector_search") =>
           rebuild = "none"
      ]_vars

\* C6: in drop_and_create_vindex(), the wait for the index to disappear ends
\* only with a describe_index that raised ServerError with code
\* INDEX_NOT_EXIST, and create_indexes is issued only after it; a
\* describe_index that returns, or raises ServerError with another code, is
\* followed by another poll.
C6_CreateOnlyAfterIndexNotExist ==
    [][ pc.m = "drop_and_create_vindex" =>
          /\ (pc.at = "poll_describe_index" /\ pc' # pc) =>
                /\ Answers
                /\ resp' = ServerError("INDEX_NOT_EXIST")
          /\ (pc.at = "poll_describe_index" /\ Answers
                /\ resp' # ServerError("INDEX_NOT_EXIST")) =>
                pc' = pc
          /\ (Issues /\ req'.call = "create_indexes") =>
                /\ req.call = "describe_index"
                /\ resp = ServerError("INDEX_NOT_EXIST")
      ]_vars

\* create_indexes has been issued, after a poll that raised INDEX_NOT_EXIST
C6_Witness ==
    /\ At("drop_and_create_vindex", "create_indexes")
    /\ outstanding = 1
    /\ req.call = "create_indexes"
    /\ resp = ServerError("INDEX_NOT_EXIST")

\* the polling loops that wait for a table to be NORMAL
C7_TableLoops ==
    {"create_db_and_table", "binary_vector_usage_example",
     "sparse_vector_usage_example"}

\* C7: a polling loop is left, when the server raises nothing, only by the
\* response that reports the awaited state (the table NORMAL, the index
\* NORMAL, the index INDEX_NOT_EXIST): no count or clock ends it; and no loop
\* goes on for ever once the server has reached the awaited state for good.
C7_PollingLoops ==
    /\ [][ /\ \A m \in C7_TableLoops :
                (At(m, "poll_describe_table") /\ pc' # pc) =>
                    /\ Answers
                    /\ resp'.kind = "ok" => resp'.state = "NORMAL"
           /\ (At("vector_search", "poll_describe_index") /\ pc' # pc) =>
                /\ Answers
                /\ resp'.kind = "ok" => resp'.state = "NORMAL"
           /\ (At("drop_and_create_vindex", "poll_describe_index") /\ pc' # pc) =>
                /\ Answers
                /\ resp' = ServerError("INDEX_NOT_EXIST")
         ]_vars
    /\ \A m \in C7_TableLoops :
         []<>~(At(m, "poll_describe_table") /\ tableState[DbOf(m)] = "NORMAL")
    /\ []<>~(At("vector_search", "poll_describe_index") /\ indexState = "NORMAL")
    /\ []<>~(At("drop_and_create_vindex", "poll_describe_index")
               /\ indexState = "ABSENT")

\* vector_search() polls again after a response that reported BUILDING
C7_Witness ==
    /\ At("vector_search", "poll_describe_index")
    /\ outstanding = 0
    /\ req.call = "describe_index"
    /\ resp.state = "BUILDING"

\* C8: in clear() and delete_and_drop(), drop_database is not issued while
\* table book_segments still exists in database book on the server.
C8_DropDatabaseOnlyWithoutTable ==
    [][ (pc.m \in {"clear", "delete_and_drop"} /\ Issues
           /\ req'.call = "drop_database") =>
           tableState["book"] = "ABSENT"
      ]_vars

\* the iterator a statement of search_iterator() works on
C9_IteratorAt(l) == IF l \in {"iterator1", "iterator1_next", "iterator1_close"}
                    THEN 1 ELSE 2

\* C9: in search_iterator(), next() is called on an iterator only while it
\* has not returned an empty batch; a non-empty batch is followed by another
\* next() and the first empty batch by close(), which is called exactly
\* once; iterator2 is created only after iterator1 was closed, at most one
\* iterator is open at any time and none when search_iterator() has returned.
C9_IteratorProtocol ==
    /\ [][ /\ (Issues /\ req'.call = "next") =>
                iterState[C9_IteratorAt(pc.at)] = "open"
           /\ (pc.m = "search_iterator" /\ Answers /\ resp'.kind = "ok") =>
                IF resp'.rows # 0
                THEN pc' = pc
                ELSE /\ pc.at = "iterator1_next" => pc'.at = "iterator1_close"
                     /\ pc.at = "iterator2_next" => pc'.at = "iterator2_close"
           /\ \A i \in 1..2 :
                /\ closes'[i] # closes[i] =>
                     /\ closes[i] = 0
                     /\ iterState[i] = "exhausted"
                /\ (iterState'[i] = "closed" /\ iterState[i] # "closed") =>
                     closes'[i] = closes[i] + 1
         ]_vars
    /\ [](iterState[2] # "none" => iterState[1] = "closed")
    /\ [](Cardinality({i \in 1..2 : iterState[i] \in {"open", "exhausted"}}) <= 1)
    /\ []("search_iterator" \in returned =>
            \A i \in 1..2 : iterState[i] = "closed" /\ closes[i] = 1)

\* search_iterator() has returned after an iterator delivered a batch
C9_Witness ==
    /\ "search_iterator" \in returned
    /\ nbatches >= 1
    /\ closes = [i \in 1..2 |-> 1]

\* C10: select_data() passes marker None in its first select and in every
\* later one the next_marker of the response before it, which was truncated;
\* the first response that is not truncated ends the method, so that it has
\* issued one select more than it received truncated pages; the method
\* returns.
C10_MarkerPaging ==
    /\ [][ /\ (Issues /\ req'.call = "select") =>
                IF nselect = 0
                THEN req'.marker = NoMarker
                ELSE /\ req.call = "select"
                     /\ resp.is_truncated
                     /\ req'.marker = resp.next_marker
           /\ (At("select_data", "select") /\ Answers) =>
                ("select_data" \in returned' <=> ~resp'.is_truncated)
         ]_vars
    /\ []("select_data" \in returned => nselect = ntruncated + 1)
    /\ (pc.m = "select_data") ~> ("select_data" \in returned)

\* select_data() has returned after the server truncated every page it could
C10_Witness ==
    /\ "select_data" \in returned
    /\ ntruncated = MaxPages
    /\ nselect = MaxPages + 1

\* C11: with an index type other than HNSW, HNSWPQ and PUCK,
\* create_db_and_table() and drop_and_create_vindex() leave their choice of
\* the vector index by the exception, and the script issues neither
\* create_table nor create_indexes: nothing is created for such a type.
C11_UnsupportedTypeCreatesNothing ==
    [][ vector_index_type \notin {"HNSW", "HNSWPQ", "PUCK"} =>
          /\ Issues => req'.call \notin {"create_table", "create_indexes"}
          /\ (pc.at = "check_index_type" /\ pc' # pc) => pc'.m = "aborted"
          /\ tableState'["book"] = "CREATING" => tableState["book"] = "CREATING"
          /\ indexState' = "NORMAL" => indexState \in {"NORMAL", "BUILDING"}
      ]_vars

\* drop_and_create_vindex() of an object of type FLAT has raised after the
\* index was seen to be gone
C11_Witness ==
    /\ vector_index_type = "FLAT"
    /\ pc.m = "aborted"
    /\ req.call = "describe_index"
    /\ resp = ServerError("INDEX_NOT_EXIST")
    /\ indexState = "ABSENT"

\* the ids C12 states: '0001'..'0005' and '6'..'100'
C12_Ids ==
    {<<0, 0, 0, k>> : k \in 1..5} \cup {<<k>> : k \in 6..9}
      \cup {<<a, b>> : a \in 1..9, b \in 0..9} \cup {<<1, 0, 0>>}

\* the fields C12 states to be not_null
C12_NotNull == {"id", "bookName", "vector", "arr_field"}

\* C12: upsert_data() issues one upsert request, and only one; it carries
\* 100 rows whose ids are pairwise distinct, '0001'..'0005' and '6'..'100';
\* the fields the schema declares not_null are id, bookName, vector and
\* arr_field and every row supplies them, with a vector of 4 components,
\* the dimension the schema declares for field vector.
C12_UpsertRows ==
    /\ [][ upserted' # upserted =>
             /\ At("upsert_data", "upsert")
             /\ Issues
             /\ upserted = <<>>
             /\ Len(upserted') = 1
         ]_vars
    /\ []("upsert_data" \in returned => Len(upserted) = 1)
    /\ []( (At("upsert_data", "upsert") /\ outstanding = 1) =>
             LET rows == upserted[1] IN
             /\ Len(rows) = 100
             /\ Cardinality({rows[k].id : k \in 1..Len(rows)}) = Len(rows)
             /\ {rows[k].id : k \in 1..Len(rows)} = C12_Ids
             /\ {schema_fields[f].name : f \in
                   {g \in 1..Len(schema_fields) : schema_fields[g].not_null}}
                  = C12_NotNull
             /\ \A k \in 1..Len(rows) :
                  /\ C12_NotNull \subseteq rows[k].fields
                  /\ Len(rows[k].vector) = 4
                  /\ \A f \in 1..Len(schema_fields) :
                       schema_fields[f].name = "vector" =>
                         Len(rows[k].vector) = schema_fields[f].dimension )

\* upsert_data() has returned after its upsert request
C12_Witness ==
    /\ "upsert_data" \in returned
    /\ Len(upserted) = 1
    /\ Len(upserted[1]) = 100

\* the methods that clean up before the database is created
C13_CleanUps ==
    {"clear", "binary_vector_usage_example", "sparse_vector_usage_example"}

====
